---------------------------- MODULE Spec2Model ----------------------------
(***************************************************************************)
(* WBCD phase I (src/wbcd_phase1.py): locating the data member of the ZIP, *)
(* loading it with pandas, normalising the schema, preprocessing and       *)
(* writing wbcd_clean.csv.                                                 *)
(*                                                                         *)
(* Text is a sequence of one-character strings, so that suffix tests,      *)
(* strip/lower/replace and number parsing are computed, not assumed.       *)
(* A cell is [k, n, s]: k = "num" (value n), "str" (text s) or "na" (NaN / *)
(* pd.NA).  A column is [name, dtype, cells]; a DataFrame is the sequence  *)
(* of its columns, and <<>> stands for "no table" (None).                  *)
(***************************************************************************)
EXTENDS Integers, Sequences, FiniteSets, TLC

VARIABLES
    pc,            \* position in main() / in the call under test
    zipExists,     \* file system: the --zip path exists
    outdirExists,  \* file system: the --outdir directory exists
    namelist,      \* z.namelist() of the archive
    memberData,    \* the records of the member that z.open(member) reads
    located,       \* what find_data_member returned
    df_in,         \* the table as it was when handed to preprocess
    df_raw,        \* the table object main holds as df_raw (preprocess's argument)
    df_clean,      \* the table object preprocess returned
    err,           \* the exception that ended the run ("" if none)
    outFile,       \* records of <outdir>/wbcd_clean.csv (<<>> if absent)
    outWrites,     \* number of times this run wrote wbcd_clean.csv
    run,           \* 1: first run, 2: the run on the first run's output
    firstCols,     \* column names of the first run's clean table
    outdirBefore   \* whether the --outdir directory existed when the run began

vars == <<pc, zipExists, outdirExists, namelist, memberData, located, df_in,
          df_raw, df_clean, err, outFile, outWrites, run, firstCols, outdirBefore>>

---------------------------------------------------------------------------
(* Bounds of the model.                                                    *)
MaxMembers == 3
MaxRows == 2

---------------------------------------------------------------------------
(* Python str methods.                                                     *)
UpperLetters == <<"A", "B", "C", "D", "E", "F", "G", "H", "I", "J", "K", "L", "M", "N", "O", "P", "Q", "R", "S", "T", "U", "V", "W", "X", "Y", "Z">>
LowerLetters == <<"a", "b", "c", "d", "e", "f", "g", "h", "i", "j", "k", "l", "m", "n", "o", "p", "q", "r", "s", "t", "u", "v", "w", "x", "y", "z">>
Digits == <<"0", "1", "2", "3", "4", "5", "6", "7", "8", "9">>

LowerChar(c) ==
    IF \E i \in 1..26 : UpperLetters[i] = c
    THEN LowerLetters[CHOOSE i \in 1..26 : UpperLetters[i] = c]
    ELSE c

lower(s) == [i \in 1..Len(s) |-> LowerChar(s[i])]

endswith(s, suffix) ==
    /\ Len(s) >= Len(suffix)
    /\ SubSeq(s, Len(s) - Len(suffix) + 1, Len(s)) = suffix

strip(s) ==
    LET keep == {i \in 1..Len(s) : s[i] # " "}
    IN  IF keep = {} THEN <<>>
        ELSE LET lo == CHOOSE i \in keep : \A j \in keep : i <= j
                 hi == CHOOSE i \in keep : \A j \in keep : i >= j
             IN  SubSeq(s, lo, hi)

replace_space(s) == [i \in 1..Len(s) |-> IF s[i] = " " THEN "_" ELSE s[i]]

IsDigit(c) == \E i \in 1..10 : Digits[i] = c
DigitVal(c) == (CHOOSE i \in 1..10 : Digits[i] = c) - 1

RECURSIVE ParseDigits(_)
ParseDigits(s) ==
    IF Len(s) = 0 THEN 0
    ELSE 10 * ParseDigits(SubSeq(s, 1, Len(s) - 1)) + DigitVal(s[Len(s)])

RECURSIVE FormatNat(_)
FormatNat(n) ==
    IF n < 10 THEN <<Digits[n + 1]>>
    ELSE Append(FormatNat(n \div 10), Digits[(n % 10) + 1])

---------------------------------------------------------------------------
(* find_data_member                                                        *)
RECURSIVE first_match(_, _)
first_match(files, suffix) ==
    IF files = <<>> THEN <<>>
    ELSE IF endswith(lower(Head(files)), suffix) THEN <<Head(files)>>
    ELSE first_match(Tail(files), suffix)

NotLocated == [status |-> "none", member |-> <<>>, has_header |-> FALSE]
Found(nm, hdr) == [status |-> "ok", member |-> nm, has_header |-> hdr]
NotFound == [status |-> "FileNotFoundError", member |-> <<>>, has_header |-> FALSE]

find_data_member_csv_first(names) ==
    LET IsFile(n) == ~endswith(n, <<"/">>)
        files == SelectSeq(names, IsFile)
        p1 == first_match(files, <<"w", "d", "b", "c", ".", "d", "a", "t", "a">>)
        p2 == first_match(files, <<".", "c", "s", "v">>)
        p3 == first_match(files, <<".", "d", "a", "t", "a">>)
    IN  IF p2 # <<>> THEN Found(p2[1], TRUE)
        ELSE IF p1 # <<>> THEN Found(p1[1], FALSE)
        ELSE IF p3 # <<>> THEN Found(p3[1], FALSE)
        ELSE NotFound

find_data_member(names) ==
    LET IsFile(n) == ~endswith(n, <<"/">>)
        files == SelectSeq(names, IsFile)
        p1 == first_match(files, <<"w", "d", "b", "c", ".", "d", "a", "t", "a">>)
        p2 == first_match(files, <<".", "c", "s", "v">>)
        p3 == first_match(files, <<".", "d", "a", "t", "a">>)
    IN  IF p1 # <<>> THEN Found(p1[1], FALSE)
        ELSE IF p2 # <<>> THEN Found(p2[1], TRUE)
        ELSE IF p3 # <<>> THEN Found(p3[1], FALSE)
        ELSE NotFound

(* Member names the listings are drawn from.                               *)
MemberNames ==
    { <<"w", "d", "b", "c", ".", "d", "a", "t", "a">>, <<"u", "c", "i", "/", "W", "D", "B", "C", ".", "D", "A", "T", "A">>, <<"w", "d", "b", "c", ".", "d", "a", "t", "a", "/">>, <<"e", "x", "p", "o", "r", "t", ".", "c", "s", "v">>,
      <<"B", ".", "C", "s", "v">>, <<"o", "l", "d", ".", "d", "a", "t", "a">>, <<"w", "d", "b", "c", ".", "n", "a", "m", "e", "s">>, <<"c", "s", "v", "/">>, <<"n", "o", "t", "e", "s", ".", "t", "x", "t">>,
      <<".", "d", "a", "t", "a">> }

RECURSIVE SeqsUpTo(_, _)
SeqsUpTo(S, n) ==
    IF n = 0 THEN {<<>>}
    ELSE LET shorter == SeqsUpTo(S, n - 1)
         IN  shorter \cup {Append(q, x) : q \in {r \in shorter : Len(r) = n - 1}, x \in S}

Idle ==
    /\ zipExists = TRUE /\ outdirExists = FALSE /\ outdirBefore = FALSE
    /\ memberData = <<>> /\ df_in = <<>> /\ df_raw = <<>> /\ df_clean = <<>>
    /\ err = "" /\ outFile = <<>> /\ outWrites = 0 /\ run = 1 /\ firstCols = {}

InitLocator ==
    /\ pc = "locate"
    /\ namelist \in SeqsUpTo(MemberNames, MaxMembers)
    /\ located = NotLocated
    /\ Idle

Locate ==
    /\ pc = "locate"
    /\ located' = find_data_member(namelist)
    /\ pc' = IF located'.status = "ok" THEN "located" ELSE "failed"
    /\ err' = IF located'.status = "ok" THEN "" ELSE located'.status
    /\ UNCHANGED <<zipExists, outdirExists, namelist, memberData, df_in, df_raw,
                   df_clean, outFile, outWrites, run, firstCols, outdirBefore>>

NextLocator == Locate

SpecLocator == InitLocator /\ [][NextLocator]_vars



---------------------------------------------------------------------------
(* Helpers of the statement about find_data_member.                        *)
IsFileAt(i) == namelist[i][Len(namelist[i])] # "/"
MatchAt(i, suffix) == IsFileAt(i) /\ endswith(lower(namelist[i]), suffix)
IsFirstAt(i, suffix) == MatchAt(i, suffix) /\ \A j \in 1..(i - 1) : ~MatchAt(j, suffix)
AnyMatch(suffix) == \E i \in 1..Len(namelist) : MatchAt(i, suffix)

(* C3: find_data_member returns the first file ending in wdbc.data (no     *)
(* header), else the first ending in .csv (header), else the first ending  *)
(* in .data (no header), whatever the members' positions, and fails with   *)
(* the not-found error exactly when no file matches any rule.              *)
C3_LocatorPriority ==
    pc \in {"located", "failed"} =>
        /\ AnyMatch(<<"w", "d", "b", "c", ".", "d", "a", "t", "a">>) =>
              \E i \in 1..Len(namelist) :
                  /\ IsFirstAt(i, <<"w", "d", "b", "c", ".", "d", "a", "t", "a">>)
                  /\ located = [status |-> "ok", member |-> namelist[i], has_header |-> FALSE]
        /\ (~AnyMatch(<<"w", "d", "b", "c", ".", "d", "a", "t", "a">>) /\ AnyMatch(<<".", "c", "s", "v">>)) =>
              \E i \in 1..Len(namelist) :
                  /\ IsFirstAt(i, <<".", "c", "s", "v">>)
                  /\ located = [status |-> "ok", member |-> namelist[i], has_header |-> TRUE]
        /\ (~AnyMatch(<<"w", "d", "b", "c", ".", "d", "a", "t", "a">>) /\ ~AnyMatch(<<".", "c", "s", "v">>) /\ AnyMatch(<<".", "d", "a", "t", "a">>)) =>
              \E i \in 1..Len(namelist) :
                  /\ IsFirstAt(i, <<".", "d", "a", "t", "a">>)
                  /\ located = [status |-> "ok", member |-> namelist[i], has_header |-> FALSE]
        /\ (pc = "failed" /\ err = "FileNotFoundError") <=>
              (~AnyMatch(<<"w", "d", "b", "c", ".", "d", "a", "t", "a">>) /\ ~AnyMatch(<<".", "c", "s", "v">>) /\ ~AnyMatch(<<".", "d", "a", "t", "a">>))

(* A .csv and a generic .data precede a wdbc.data member in another case,  *)
(* next to a directory entry, and the wdbc.data member is the one located. *)
C3_Witness ==
    /\ pc = "located"
    /\ \E i, j, k \in 1..Len(namelist) :
          /\ i < k /\ j < k
          /\ MatchAt(i, <<".", "c", "s", "v">>)
          /\ namelist[j] = <<"w", "d", "b", "c", ".", "d", "a", "t", "a", "/">>
          /\ namelist[k] = <<"u", "c", "i", "/", "W", "D", "B", "C", ".", "D", "A", "T", "A">>
          /\ located.member = namelist[k]
          /\ located.has_header = FALSE

---------------------------------------------------------------------------
(* Cells, columns and tables.  Numbers are non-negative integers; a        *)
(* float64 column differs from an int64 one by its dtype (it can hold NaN  *)
(* and prints as d.0).                                                     *)
NaN == [k |-> "na", n |-> 0, s |-> <<>>]
Num(v) == [k |-> "num", n |-> v, s |-> <<>>]
Text(t) == [k |-> "str", n |-> 0, s |-> t]
Column(nm, dt, cs) == [name |-> nm, dtype |-> dt, cells |-> cs]

columns(df) == [i \in 1..Len(df) |-> df[i].name]
nrows(df) == IF df = <<>> THEN 0 ELSE Len(df[1].cells)
HasNaN(cells) == \E i \in 1..Len(cells) : cells[i].k = "na"
Positions(df, nm) == {i \in 1..Len(df) : df[i].name = nm}

(* Text that pandas parses as a number: digits, or digits followed by .0   *)
IsIntText(t) == Len(t) > 0 /\ \A i \in 1..Len(t) : IsDigit(t[i])
IsFloatText(t) ==
    /\ Len(t) > 2
    /\ SubSeq(t, Len(t) - 1, Len(t)) = <<".", "0">>
    /\ IsIntText(SubSeq(t, 1, Len(t) - 2))
IsNumText(t) == IsIntText(t) \/ IsFloatText(t)
ParseNum(t) == IF IsIntText(t) THEN ParseDigits(t) ELSE ParseDigits(SubSeq(t, 1, Len(t) - 2))

is_numeric_dtype(col) == col.dtype \in {"int64", "float64"}

(* Series.map(dict): a value that is no key of the dict becomes NaN.       *)
map(col, mapping) ==
    LET cs == [i \in 1..Len(col.cells) |->
                  IF col.cells[i].k = "str" /\ col.cells[i].s \in DOMAIN mapping
                  THEN Num(mapping[col.cells[i].s]) ELSE NaN]
    IN  Column(col.name, IF HasNaN(cs) THEN "float64" ELSE "int64", cs)

(* Series.replace(dict): a value that is a key is replaced, the others stay. *)
replace(col, mapping) ==
    LET cs == [i \in 1..Len(col.cells) |->
                  IF col.cells[i].k = "str" /\ col.cells[i].s \in DOMAIN mapping
                  THEN Num(mapping[col.cells[i].s]) ELSE col.cells[i]]
    IN  Column(col.name, IF cs = col.cells THEN col.dtype ELSE "object", cs)

(* Series.fillna(other): the NaN entries take other's value at the same row. *)
fillna(col, other) ==
    LET cs == [i \in 1..Len(col.cells) |->
                  IF col.cells[i].k = "na" THEN other.cells[i] ELSE col.cells[i]]
    IN  Column(col.name, col.dtype, cs)

(* Series.astype(int): raises on NaN and on text that is no integer.       *)
astype_int_fails(col) ==
    \E i \in 1..Len(col.cells) :
        \/ col.cells[i].k = "na"
        \/ col.cells[i].k = "str" /\ ~IsIntText(col.cells[i].s)
astype_int(col) ==
    Column(col.name, "int64",
           [i \in 1..Len(col.cells) |->
               IF col.cells[i].k = "str" THEN Num(ParseDigits(col.cells[i].s))
               ELSE col.cells[i]])

(* DataFrame.drop(columns=labels): every column carrying one of the labels. *)
drop(df, labels) ==
    LET Keep(col) == col.name \notin labels IN SelectSeq(df, Keep)

(* df.replace({"?": pd.NA, "NA": pd.NA, "null": pd.NA, "None": pd.NA})     *)
MissingSymbols == { <<"?">>, <<"N", "A">>, <<"n", "u", "l", "l">>, <<"N", "o", "n", "e">> }

replace_missing_any_text(df) ==
    [c \in 1..Len(df) |->
        Column(df[c].name, df[c].dtype,
               [i \in 1..Len(df[c].cells) |->
                   IF df[c].cells[i].k = "str" THEN NaN ELSE df[c].cells[i]])]

replace_missing(df) ==
    [c \in 1..Len(df) |->
        Column(df[c].name, df[c].dtype,
               [i \in 1..Len(df[c].cells) |->
                   IF df[c].cells[i].k = "str" /\ df[c].cells[i].s \in MissingSymbols
                   THEN NaN ELSE df[c].cells[i]])]

(* pd.to_numeric(series, errors="coerce")                                  *)
to_numeric(col) ==
    LET cs == [i \in 1..Len(col.cells) |->
                  IF col.cells[i].k = "str"
                  THEN IF IsNumText(col.cells[i].s) THEN Num(ParseNum(col.cells[i].s)) ELSE NaN
                  ELSE col.cells[i]]
        isFloat == \/ HasNaN(cs)
                   \/ col.dtype = "float64"
                   \/ \E i \in 1..Len(cs) : col.cells[i].k = "str" /\ IsFloatText(col.cells[i].s)
    IN  Column(col.name, IF isFloat THEN "float64" ELSE "int64", cs)

---------------------------------------------------------------------------
(* preprocess(df).  The result is [err, arg, out]: the exception raised    *)
(* ("" if none), the state in which the call leaves the DataFrame object   *)
(* it was given (df["diagnosis"] = ... assigns into that object), and the  *)
(* DataFrame it returns (<<>> when it raises).                             *)
mapping == (<<"M">> :> 1) @@ (<<"B">> :> 0) @@ (<<"m">> :> 1) @@ (<<"b">> :> 0)
alt_map == (<<"M", "a", "l", "i", "g", "n", "o">> :> 1) @@ (<<"B", "e", "n", "i", "g", "n", "o">> :> 0) @@ (<<"m", "a", "l", "i", "g", "n", "o">> :> 1) @@ (<<"b", "e", "n", "i", "g", "n", "o">> :> 0)

SetColumn(df, p, col) == [df EXCEPT ![p] = col]

(* lines 111-122: the label column.  [err, arg]                            *)
encode_diagnosis(df) ==
    LET ps == Positions(df, <<"d", "i", "a", "g", "n", "o", "s", "i", "s">>)
    IN  IF ps = {} THEN [err |-> "KeyError", arg |-> df]
        ELSE IF Cardinality(ps) > 1
        THEN \* df["diagnosis"] is a DataFrame: .map(dict) raises
             [err |-> "TypeError", arg |-> df]
        ELSE LET p == CHOOSE q \in ps : TRUE
                 d == df[p]
             IN  IF is_numeric_dtype(d)
                 THEN IF astype_int_fails(d)
                      THEN [err |-> "ValueError", arg |-> df]
                      ELSE [err |-> "", arg |-> SetColumn(df, p, astype_int(d))]
                 ELSE LET m1 == map(d, mapping)
                          df1 == SetColumn(df, p, m1)
                          \* line 120 reads df["diagnosis"] after line 116 assigned it
                          m2 == IF HasNaN(m1.cells)
                                THEN fillna(df1[p], replace(df1[p], alt_map))
                                ELSE m1
                          df2 == SetColumn(df1, p, m2)
                      IN  IF astype_int_fails(m2)
                          THEN [err |-> "ValueError", arg |-> df2]
                          ELSE [err |-> "", arg |-> SetColumn(df2, p, astype_int(m2))]

(* lines 126-133: the identifier column.                                   *)
drop_id(df) ==
    LET cols == columns(df)
    IN  IF cols[1] = <<"i", "d">> THEN drop(df, {<<"i", "d">>})
        ELSE LET candidate_ids ==
                     {cols[i] : i \in {j \in 1..Len(cols) : cols[j] \in {<<"i", "d">>, <<"u", "n", "n", "a", "m", "e", "d", ":", " ", "0">>}}}
             IN  IF candidate_ids # {} THEN drop(df, candidate_ids) ELSE df

(* lines 138-140: every column but diagnosis goes through to_numeric; a    *)
(* duplicated feature name makes df[c] a DataFrame, which to_numeric       *)
(* rejects.                                                                *)
feature_cols(df) == {i \in 1..Len(df) : df[i].name # <<"d", "i", "a", "g", "n", "o", "s", "i", "s">>}
coerce_fails(df) ==
    \E i, j \in feature_cols(df) : i # j /\ df[i].name = df[j].name
coerce_features(df) ==
    [c \in 1..Len(df) |-> IF c \in feature_cols(df) THEN to_numeric(df[c]) ELSE df[c]]

preprocess(df) ==
    LET e == encode_diagnosis(df)
    IN  IF e.err # "" THEN [err |-> e.err, arg |-> e.arg, out |-> <<>>]
        ELSE LET d3 == replace_missing(drop_id(e.arg))
             IN  IF coerce_fails(d3)
                 THEN [err |-> "TypeError", arg |-> e.arg, out |-> <<>>]
                 ELSE [err |-> "", arg |-> e.arg, out |-> coerce_features(d3)]

---------------------------------------------------------------------------
(* main, line 189: df_clean = preprocess(df_raw)                           *)
Preprocess ==
    /\ pc = "preprocess"
    /\ LET r == preprocess(df_raw)
       IN  /\ df_raw' = r.arg
           /\ df_clean' = r.out
           /\ err' = r.err
           /\ pc' = IF r.err = "" THEN "report" ELSE "failed"
    /\ UNCHANGED <<zipExists, outdirExists, namelist, memberData, located, df_in,
                   outFile, outWrites, run, firstCols, outdirBefore>>

(* Tables handed to preprocess directly: an optional id column, the label  *)
(* column and one feature column, in the orders below.                     *)
LabelTexts == { <<"M">>, <<"b">>, <<"M", "a", "l", "i", "g", "n", "o">>, <<"b", "e", "n", "i", "g", "n", "o">>, <<"X">> }
LabelNums == {0, 1, 2}
FeatureTexts == MissingSymbols \cup { <<"1", "2">> }
FeatureNums == {7, 12}

CellSeqs(S, n) == [1..n -> S]

LabelColumns(n) ==
    {Column(<<"d", "i", "a", "g", "n", "o", "s", "i", "s">>, "int64", cs) : cs \in CellSeqs({Num(v) : v \in LabelNums}, n)}
    \cup {Column(<<"d", "i", "a", "g", "n", "o", "s", "i", "s">>, "object", cs) : cs \in CellSeqs({Text(t) : t \in LabelTexts}, n)}

FeatureColumns(n) ==
    {Column(<<"r", "a", "d", "i", "u", "s", "_", "m", "e", "a", "n">>, "int64", cs) : cs \in CellSeqs({Num(v) : v \in FeatureNums}, n)}
    \cup {Column(<<"r", "a", "d", "i", "u", "s", "_", "m", "e", "a", "n">>, "object", cs) : cs \in CellSeqs({Text(t) : t \in FeatureTexts}, n)}

IdColumn(n) == Column(<<"i", "d">>, "int64", [i \in 1..n |-> Num(100 + i)])

Layouts(n, d, f) == {<<IdColumn(n), d, f>>, <<d, f>>, <<f, d, IdColumn(n)>>}

InitPreprocess ==
    /\ pc = "preprocess"
    /\ \E n \in 1..MaxRows :
          \E d \in LabelColumns(n), f \in FeatureColumns(n) : df_raw \in Layouts(n, d, f)
    /\ df_in = df_raw
    /\ df_clean = <<>>
    /\ zipExists = TRUE /\ outdirExists = TRUE /\ outdirBefore = TRUE
    /\ namelist = <<>> /\ memberData = <<>> /\ located = NotLocated
    /\ err = "" /\ outFile = <<>> /\ outWrites = 0 /\ run = 1 /\ firstCols = {}

NextPreprocess == Preprocess

SpecPreprocess == InitPreprocess /\ [][NextPreprocess]_vars

---------------------------------------------------------------------------
(* pd.read_csv.  A member's content is the sequence of its records, each   *)
(* the sequence of its comma-separated fields; the files read here are     *)
(* rectangular (every record as wide as the first).                        *)
COLUMN_NAMES ==
    << <<"i", "d">>, <<"d", "i", "a", "g", "n", "o", "s", "i", "s">>,
       <<"r", "a", "d", "i", "u", "s", "_", "m", "e", "a", "n">>, <<"t", "e", "x", "t", "u", "r", "e", "_", "m", "e", "a", "n">>, <<"p", "e", "r", "i", "m", "e", "t", "e", "r", "_", "m", "e", "a", "n">>, <<"a", "r", "e", "a", "_", "m", "e", "a", "n">>, <<"s", "m", "o", "o", "t", "h", "n", "e", "s", "s", "_", "m", "e", "a", "n">>,
       <<"c", "o", "m", "p", "a", "c", "t", "n", "e", "s", "s", "_", "m", "e", "a", "n">>, <<"c", "o", "n", "c", "a", "v", "i", "t", "y", "_", "m", "e", "a", "n">>, <<"c", "o", "n", "c", "a", "v", "e", "_", "p", "o", "i", "n", "t", "s", "_", "m", "e", "a", "n">>, <<"s", "y", "m", "m", "e", "t", "r", "y", "_", "m", "e", "a", "n">>, <<"f", "r", "a", "c", "t", "a", "l", "_", "d", "i", "m", "e", "n", "s", "i", "o", "n", "_", "m", "e", "a", "n">>,
       <<"r", "a", "d", "i", "u", "s", "_", "s", "e">>, <<"t", "e", "x", "t", "u", "r", "e", "_", "s", "e">>, <<"p", "e", "r", "i", "m", "e", "t", "e", "r", "_", "s", "e">>, <<"a", "r", "e", "a", "_", "s", "e">>, <<"s", "m", "o", "o", "t", "h", "n", "e", "s", "s", "_", "s", "e">>,
       <<"c", "o", "m", "p", "a", "c", "t", "n", "e", "s", "s", "_", "s", "e">>, <<"c", "o", "n", "c", "a", "v", "i", "t", "y", "_", "s", "e">>, <<"c", "o", "n", "c", "a", "v", "e", "_", "p", "o", "i", "n", "t", "s", "_", "s", "e">>, <<"s", "y", "m", "m", "e", "t", "r", "y", "_", "s", "e">>, <<"f", "r", "a", "c", "t", "a", "l", "_", "d", "i", "m", "e", "n", "s", "i", "o", "n", "_", "s", "e">>,
       <<"r", "a", "d", "i", "u", "s", "_", "w", "o", "r", "s", "t">>, <<"t", "e", "x", "t", "u", "r", "e", "_", "w", "o", "r", "s", "t">>, <<"p", "e", "r", "i", "m", "e", "t", "e", "r", "_", "w", "o", "r", "s", "t">>, <<"a", "r", "e", "a", "_", "w", "o", "r", "s", "t">>, <<"s", "m", "o", "o", "t", "h", "n", "e", "s", "s", "_", "w", "o", "r", "s", "t">>,
       <<"c", "o", "m", "p", "a", "c", "t", "n", "e", "s", "s", "_", "w", "o", "r", "s", "t">>, <<"c", "o", "n", "c", "a", "v", "i", "t", "y", "_", "w", "o", "r", "s", "t">>, <<"c", "o", "n", "c", "a", "v", "e", "_", "p", "o", "i", "n", "t", "s", "_", "w", "o", "r", "s", "t">>, <<"s", "y", "m", "m", "e", "t", "r", "y", "_", "w", "o", "r", "s", "t">>, <<"f", "r", "a", "c", "t", "a", "l", "_", "d", "i", "m", "e", "n", "s", "i", "o", "n", "_", "w", "o", "r", "s", "t">> >>

(* Fields read_csv takes for missing (its default na_values).              *)
NA_VALUES ==
    { <<>>, <<"#", "N", "/", "A">>, <<"#", "N", "/", "A", " ", "N", "/", "A">>, <<"#", "N", "A">>, <<"-", "1", ".", "#", "I", "N", "D">>, <<"-", "1", ".", "#", "Q", "N", "A", "N">>, <<"-", "N", "a", "N">>, <<"-", "n", "a", "n">>,
      <<"1", ".", "#", "I", "N", "D">>, <<"1", ".", "#", "Q", "N", "A", "N">>, <<"<", "N", "A", ">">>, <<"N", "/", "A">>, <<"N", "A">>, <<"N", "U", "L", "L">>, <<"N", "a", "N">>, <<"N", "o", "n", "e">>,
      <<"n", "/", "a">>, <<"n", "a", "n">>, <<"n", "u", "l", "l">> }

(* One column's dtype inference: numbers and missing fields give int64 or  *)
(* float64, anything else leaves the column as text (object).              *)
infer_column(nm, fields) ==
    LET n == Len(fields)
        allNum == n > 0 /\ \A i \in 1..n : fields[i] \in NA_VALUES \/ IsNumText(fields[i])
        anyFloat == \E i \in 1..n : fields[i] \in NA_VALUES \/ IsFloatText(fields[i])
    IN  IF allNum
        THEN Column(nm, IF anyFloat THEN "float64" ELSE "int64",
                    [i \in 1..n |-> IF fields[i] \in NA_VALUES THEN NaN ELSE Num(ParseNum(fields[i]))])
        ELSE Column(nm, "object",
                    [i \in 1..n |-> IF fields[i] \in NA_VALUES THEN NaN ELSE Text(fields[i])])

FieldAt(rec, j) == IF j >= 1 /\ j <= Len(rec) THEN rec[j] ELSE <<>>

(* header=0: the first record names the columns; an empty name becomes     *)
(* "Unnamed: j" and a repeated name gets ".k" appended.                    *)
header_names(rec) ==
    [j \in 1..Len(rec) |->
        LET nm == IF rec[j] = <<>> THEN <<"U", "n", "n", "a", "m", "e", "d", ":", " ">> \o FormatNat(j - 1) ELSE rec[j]
            k == Cardinality({i \in 1..(j - 1) : rec[i] = rec[j]})
        IN  IF k = 0 THEN nm ELSE nm \o <<".">> \o FormatNat(k)]

read_csv(records) ==
    LET names == header_names(Head(records))
        rows == Tail(records)
    IN  [j \in 1..Len(names) |->
            infer_column(names[j], [r \in 1..Len(rows) |-> FieldAt(rows[r], j)])]

(* header=None, names=COLUMN_NAMES: no record is consumed as a header.     *)
(* Records shorter than the names are padded with NaN; when they are       *)
(* longer, the leading surplus fields become the index and the names go to *)
(* the last len(names) fields.  Neither case raises.                       *)
read_csv_names(records, names) ==
    LET w == Len(Head(records))
        lead == IF w > Len(names) THEN w - Len(names) ELSE 0
    IN  [j \in 1..Len(names) |->
            infer_column(names[j], [r \in 1..Len(records) |-> FieldAt(records[r], lead + j)])]

---------------------------------------------------------------------------
(* load_wbcd_from_zip.  [err, located, df]                                 *)
normalize_name(c) == replace_space(lower(strip(c)))

normalize_columns(df) ==
    [j \in 1..Len(df) |-> Column(normalize_name(df[j].name), df[j].dtype, df[j].cells)]

nunique(col) == Cardinality({col.cells[i].n : i \in {r \in 1..Len(col.cells) : col.cells[r].k = "num"}})

rename(df, old, new) ==
    [j \in 1..Len(df) |-> IF df[j].name = old THEN Column(new, df[j].dtype, df[j].cells) ELSE df[j]]

(* lines 92-100; with a repeated first name df[first_col] is a DataFrame,  *)
(* which is not of a numeric dtype.                                        *)
looks_like_id(df) ==
    LET first_col == df[1].name
    IN  /\ first_col # <<"i", "d">>
        /\ Cardinality(Positions(df, first_col)) = 1
        /\ is_numeric_dtype(df[1])
        /\ 10 * nunique(df[1]) > 9 * nrows(df)

normalize(df0) ==
    LET df == normalize_columns(df0)
    IN  IF Positions(df, <<"d", "i", "a", "g", "n", "o", "s", "i", "s">>) = {} THEN [err |-> "ValueError", df |-> <<>>]
        ELSE IF looks_like_id(df) THEN [err |-> "", df |-> rename(df, df[1].name, <<"i", "d">>)]
        ELSE [err |-> "", df |-> df]

load_wbcd_from_zip(exists, names, records) ==
    IF ~exists THEN [err |-> "FileNotFoundError", located |-> NotLocated, df |-> <<>>]
    ELSE LET loc == find_data_member(names)
         IN  IF loc.status # "ok" THEN [err |-> loc.status, located |-> loc, df |-> <<>>]
             ELSE LET df0 == IF loc.has_header THEN read_csv(records)
                             ELSE read_csv_names(records, COLUMN_NAMES)
                      nz == normalize(df0)
                  IN  [err |-> nz.err, located |-> loc, df |-> nz.df]

---------------------------------------------------------------------------
(* df.to_csv(out_csv, index=False)                                         *)
format_cell(dtype, cell) ==
    IF cell.k = "na" THEN <<>>
    ELSE IF cell.k = "str" THEN cell.s
    ELSE IF dtype = "float64" THEN FormatNat(cell.n) \o <<".", "0">>
    ELSE FormatNat(cell.n)

to_csv(df) ==
    <<columns(df)>> \o
    [r \in 1..nrows(df) |-> [j \in 1..Len(df) |-> format_cell(df[j].dtype, df[j].cells[r])]]

---------------------------------------------------------------------------
(* main                                                                    *)
(* line 181: outdir.mkdir(parents=True, exist_ok=True)                     *)
Mkdir ==
    /\ pc = "start"
    /\ outdirExists' = TRUE
    /\ pc' = "load"
    /\ UNCHANGED <<zipExists, namelist, memberData, located, df_in, df_raw, df_clean,
                   err, outFile, outWrites, run, firstCols, outdirBefore>>

(* line 185: df_raw = load_wbcd_from_zip(zip_path)                         *)
Load ==
    /\ pc = "load"
    /\ LET r == load_wbcd_from_zip(zipExists, namelist, memberData)
       IN  /\ located' = r.located
           /\ err' = r.err
           /\ df_raw' = r.df
           /\ df_in' = r.df
           /\ pc' = IF r.err = "" THEN "preprocess" ELSE "failed"
    /\ UNCHANGED <<zipExists, outdirExists, namelist, memberData, df_clean,
                   outFile, outWrites, run, firstCols, outdirBefore>>

(* line 193: report(df_clean) prints and changes nothing                   *)
Report ==
    /\ pc = "report"
    /\ pc' = "write"
    /\ UNCHANGED <<zipExists, outdirExists, namelist, memberData, located, df_in, df_raw,
                   df_clean, err, outFile, outWrites, run, firstCols, outdirBefore>>

(* lines 196-197: df_clean.to_csv(outdir / "wbcd_clean.csv", index=False)  *)
Write ==
    /\ pc = "write"
    /\ outFile' = to_csv(df_clean)
    /\ outWrites' = outWrites + 1
    /\ firstCols' = IF run = 1 THEN {df_clean[j].name : j \in 1..Len(df_clean)} ELSE firstCols
    /\ pc' = "done"
    /\ UNCHANGED <<zipExists, outdirExists, namelist, memberData, located, df_in, df_raw,
                   df_clean, err, run, outdirBefore>>

(* A second run of main on an archive whose only member is the first       *)
(* run's wbcd_clean.csv, written to the same --outdir.                     *)
Rerun ==
    /\ pc = "done" /\ run = 1
    /\ run' = 2
    /\ namelist' = << <<"w", "b", "c", "d", "_", "c", "l", "e", "a", "n", ".", "c", "s", "v">> >>
    /\ memberData' = outFile
    /\ located' = NotLocated
    /\ df_in' = <<>> /\ df_raw' = <<>> /\ df_clean' = <<>>
    /\ err' = "" /\ outWrites' = 0
    /\ outdirBefore' = outdirExists
    /\ pc' = "start"
    /\ UNCHANGED <<zipExists, outdirExists, outFile, firstCols>>

(* Members the runs read.  With a header: the records below the header     *)
(* hold label fields under a diagnosis header and feature fields elsewhere. *)
CsvHeaders ==
    { << <<"I", "D">>, <<"D", "i", "a", "g", "n", "o", "s", "i", "s">>, <<"r", "a", "d", "i", "u", "s", " ", "m", "e", "a", "n">> >>,
      << <<"d", "i", "a", "g", "n", "o", "s", "i", "s">>, <<"r", "a", "d", "i", "u", "s", "_", "m", "e", "a", "n">> >>,
      << <<"k", "e", "y">>, <<"i", "d">>, <<" ", "D", "i", "a", "g", "n", "o", "s", "i", "s", " ">> >>,
      << <<"d", "i", "a", "g", "n", "o", "s", "i", "s">>, <<"U", "n", "n", "a", "m", "e", "d", ":", " ", "0">>, <<"r", "a", "d", "i", "u", "s", "_", "m", "e", "a", "n">> >>,
      << <<"r", "a", "d", "i", "u", "s", "_", "m", "e", "a", "n">>, <<"t", "e", "x", "t", "u", "r", "e", "_", "m", "e", "a", "n">> >> }
LabelFields == { <<"M">>, <<"B">>, <<"1">>, <<"0">> }
FeatureFields == { <<"1">>, <<"2">>, <<"?">> }

FieldsFor(h) == IF normalize_name(h) = <<"d", "i", "a", "g", "n", "o", "s", "i", "s">> THEN LabelFields ELSE FeatureFields

RECURSIVE Records(_)
Records(hdr) ==
    IF hdr = <<>> THEN {<<>>}
    ELSE {<<f>> \o rest : f \in FieldsFor(Head(hdr)), rest \in Records(Tail(hdr))}

(* Without a header: an id, a label and feature fields, in records of      *)
(* len(COLUMN_NAMES) fields, one fewer or one more.                        *)
DataRecord(r, label, w) ==
    [j \in 1..w |-> IF j = 1 THEN FormatNat(8420 + r) ELSE IF j = 2 THEN label ELSE <<"5">>]

DataWidths == (Len(COLUMN_NAMES) - 1)..(Len(COLUMN_NAMES) + 1)

InitArchive ==
    \/ /\ ~zipExists
       /\ namelist = <<>> /\ memberData = <<>>
    \/ /\ zipExists
       /\ namelist = << <<"n", "o", "t", "e", "s", ".", "t", "x", "t">> >> /\ memberData = <<>>
    \/ /\ zipExists
       /\ namelist = << <<"n", "o", "t", "e", "s", ".", "t", "x", "t">>, <<"e", "x", "p", "o", "r", "t", ".", "c", "s", "v">> >>
       /\ \E hdr \in CsvHeaders, n \in 1..MaxRows :
              \E rows \in [1..n -> Records(hdr)] : memberData = <<hdr>> \o rows
    \/ /\ zipExists
       /\ namelist = << <<"w", "d", "b", "c", ".", "n", "a", "m", "e", "s">>, <<"w", "d", "b", "c", ".", "d", "a", "t", "a">> >>
       /\ \E w \in DataWidths, n \in 1..MaxRows :
              \E labels \in [1..n -> { <<"M">>, <<"B">> }] :
                  memberData = [r \in 1..n |-> DataRecord(r, labels[r], w)]

Init ==
    /\ pc = "start"
    /\ zipExists \in BOOLEAN
    /\ outdirExists \in BOOLEAN
    /\ outdirBefore = outdirExists
    /\ InitArchive
    /\ located = NotLocated
    /\ df_in = <<>> /\ df_raw = <<>> /\ df_clean = <<>>
    /\ err = "" /\ outFile = <<>> /\ outWrites = 0 /\ run = 1 /\ firstCols = {}

Next == Mkdir \/ Load \/ Preprocess \/ Report \/ Write \/ Rerun

Spec == Init /\ [][Next]_vars

---------------------------------------------------------------------------
(* Helpers of the statements below.                                        *)
Returned == pc = "report"                     \* preprocess returned (SpecPreprocess)
Ended == pc \in {"report", "failed"}         \* preprocess returned or raised
LabelOf(df) == df[CHOOSE p \in Positions(df, <<"d", "i", "a", "g", "n", "o", "s", "i", "s">>) : TRUE]
ColumnSet(df) == {df[j].name : j \in 1..Len(df)}

MalignantTexts == { <<"M">>, <<"m">>, <<"M", "a", "l", "i", "g", "n", "o">>, <<"m", "a", "l", "i", "g", "n", "o">> }
BenignTexts == { <<"B">>, <<"b">>, <<"B", "e", "n", "i", "g", "n", "o">>, <<"b", "e", "n", "i", "g", "n", "o">> }
SupportedLabel(col) ==
    \/ col.dtype = "int64" /\ \A i \in 1..Len(col.cells) : col.cells[i] \in {Num(0), Num(1)}
    \/ col.dtype = "object" /\ \A i \in 1..Len(col.cells) :
          col.cells[i].k = "str" /\ col.cells[i].s \in MalignantTexts \cup BenignTexts
IsMalignant(cell) == cell = Num(1) \/ (cell.k = "str" /\ cell.s \in MalignantTexts)

(* C1: for every supported encoding of the label column (0/1, M/B, m/b,    *)
(* Maligno/Benigno, maligno/benigno or a mix of the strings) preprocess    *)
(* completes and the label is 1 for a malignant and 0 for a benign value.  *)
C1_SupportedEncodings ==
    (Ended /\ SupportedLabel(LabelOf(df_in))) =>
        /\ Returned
        /\ \A i \in 1..nrows(df_in) :
              LabelOf(df_clean).cells[i] = IF IsMalignant(LabelOf(df_in).cells[i]) THEN Num(1) ELSE Num(0)

(* C2: preprocess either aborts with the coercion error or returns a table *)
(* whose label column holds only the integers 0 and 1.                     *)
C2_LabelZeroOne ==
    /\ pc = "failed" => err = "ValueError"
    /\ Returned =>
          /\ LabelOf(df_clean).dtype = "int64"
          /\ \A i \in 1..nrows(df_clean) : LabelOf(df_clean).cells[i] \in {Num(0), Num(1)}

(* C10: preprocess leaves the table it was given as it was, whether it     *)
(* returns or raises.                                                      *)
C10_InputNotMutated == Ended => df_raw = df_in

Sentinels == { <<"?">>, <<"N", "A">>, <<"n", "u", "l", "l">>, <<"N", "o", "n", "e">> }
IsFeatureName(nm) == nm \notin { <<"d", "i", "a", "g", "n", "o", "s", "i", "s">>, <<"i", "d">> }
CleanCellOk(before, after) ==
    /\ after.k # "str"
    /\ (before.k = "str" /\ before.s \in Sentinels) => after.k = "na"
    /\ before.k = "num" => after = before
    /\ (before.k = "str" /\ before.s \notin Sentinels) =>
          (after.k = "num" /\ FormatNat(after.n) = before.s)

(* C7: when preprocess returns, each feature cell that held "?", "NA",     *)
(* "null" or "None" is absent in the clean table, every other feature cell *)
(* holds the number it held (or spelled), no text survives, and the clean  *)
(* table has the rows and the non-identifier columns of the input.         *)
C7_SentinelsBecomeAbsent ==
    Returned =>
        /\ nrows(df_clean) = nrows(df_in)
        /\ ColumnSet(df_clean) = ColumnSet(df_in) \ { <<"i", "d">> }
        /\ \A j \in 1..Len(df_in) :
              IsFeatureName(df_in[j].name) =>
                  \E c \in 1..Len(df_clean) :
                      /\ df_clean[c].name = df_in[j].name
                      /\ \A i \in 1..nrows(df_in) :
                            CleanCellOk(df_in[j].cells[i], df_clean[c].cells[i])

(* A leading feature column with a sentinel in one row and a number        *)
(* spelled as text in another: absent and 12 in the clean table.           *)
C7_Witness ==
    /\ Returned
    /\ nrows(df_in) = 2
    /\ df_in[1].name = <<"r", "a", "d", "i", "u", "s", "_", "m", "e", "a", "n">>
    /\ df_in[1].cells[1] = Text(<<"N", "o", "n", "e">>)
    /\ df_in[1].cells[2] = Text(<<"1", "2">>)
    /\ df_clean[1].name = <<"r", "a", "d", "i", "u", "s", "_", "m", "e", "a", "n">>
    /\ df_clean[1].cells = <<NaN, Num(12)>>

---------------------------------------------------------------------------
(* Statements about a run of main (Spec).                                  *)
Loaded == pc \in {"preprocess", "report", "write", "done"} \/ (pc = "failed" /\ df_in # <<>>)
Cleaned == pc \in {"report", "write", "done"}

(* C4: after load_wbcd_from_zip and preprocess the table has no column     *)
(* named id or unnamed:_0, and no other column was removed.                *)
IdNames == { <<"i", "d">>, <<"u", "n", "n", "a", "m", "e", "d", ":", "_", "0">> }
C4_NoIdentifierLeft ==
    Cleaned =>
        /\ ColumnSet(df_clean) \cap IdNames = {}
        /\ ColumnSet(df_in) \ IdNames \subseteq ColumnSet(df_clean)

(* C5: the table load_wbcd_from_zip returns has a column named diagnosis   *)
(* and no repeated column name.                                            *)
C5_CanonicalTable ==
    Loaded =>
        /\ Positions(df_in, <<"d", "i", "a", "g", "n", "o", "s", "i", "s">>) # {}
        /\ \A i, j \in 1..Len(df_in) : df_in[i].name = df_in[j].name => i = j

(* C6: the run on a clean table completes and yields the same column set.  *)
C6_Idempotent ==
    (run = 2 /\ pc \in {"done", "failed"}) =>
        /\ pc = "done"
        /\ ColumnSet(df_clean) = firstCols

(* C8: wbcd_clean.csv is written at most once, only after load, preprocess *)
(* and report completed; a run that fails has written no file and created  *)
(* no directory.                                                           *)
C8_FailFastNoOutput ==
    /\ outWrites <= 1
    /\ outWrites = 1 => pc = "done"
    /\ (pc = "failed" /\ run = 1) =>
          /\ outFile = <<>>
          /\ outdirExists = outdirBefore

(* C9: a member without header is loaded only if its records have exactly  *)
(* len(COLUMN_NAMES) fields; the names are then COLUMN_NAMES, one row per  *)
(* record.                                                                 *)
C9_HeaderlessWidth ==
    (Loaded /\ run = 1 /\ ~located.has_header) =>
        /\ Len(memberData[1]) = Len(COLUMN_NAMES)
        /\ columns(df_in) = COLUMN_NAMES
        /\ nrows(df_in) = Len(memberData)

===========================================================================
